---- MODULE Spec2Model ----
(***************************************************************************)
(* Instagram hashtag scraper: the per-topic fetch state machine            *)
(* (InstagramHashtagScraper.fetch_hashtag_info), the entry point           *)
(* fetch_hashtag_data with its session set-up and clean-up, the error      *)
(* classifier of utils.py, and the GUI worker that calls the entry point   *)
(* for each topic while a stop request may arrive from the GUI thread.     *)
(*                                                                         *)
(* A step that reads the browser (current URL, page source, elements)      *)
(* draws what it reads with \E: the page belongs to the remote site.       *)
(***************************************************************************)
EXTENDS Integers, Sequences, FiniteSets, TLC

\* ---------------------------------------------------------------- bounds
MaxRetriesBound == 3
MaxPostsBound == 2
MaxCount == 1
MaxLinks == 1
MaxPostLinks == 2
NumTags == 2
MaxAttempt == 3
MaxBase == 3
MaxCap == 13
MaxAge == 8
MaxCookies == 2
MaxText == 5
MaxBatch == 2
MaxCalls == 2

\* ------------------------------------------------------ program constants
DefaultMaxRetries == 3
RelatedCap == 10
BackoffBaseDefault == 1
RateLimitWaitTime == 300

None == "None"
Tags == {"t1", "t2"}
PostIds == {"p1", "p2"}
NoMatch == "nomatch"

ErrLoginRequired == "login session expired"
ErrRateLimited == "could not fetch because of rate limit"
ErrBlocked == "account is blocked"
ErrSessionInit == "session initialization failed, login needed"
ErrNoSession == "session is not initialized"
ErrMaxRetries == "max retries reached: "
ExcNavigation == "WebDriverException"
ExcMkdir == "mkdir failed"

BSeq(S, n) == UNION {[1..k -> S] : k \in 0..n}

Min(a, b) == IF a < b THEN a ELSE b
Max(a, b) == IF a > b THEN a ELSE b

\* -------------------------------------------------------- list helpers
\* s[:n] of Python, n any integer
PySlice(s, n) ==
  IF n >= 0 THEN SubSeq(s, 1, Min(n, Len(s)))
  ELSE SubSeq(s, 1, Max(Len(s) + n, 0))

RECURSIVE AppendNew(_, _)
\* appends to acc, in order, the entries of s that are matches and not yet in acc
AppendNew(acc, s) ==
  IF s = <<>> THEN acc
  ELSE LET h == Head(s)
       IN IF h # NoMatch /\ \A k \in 1..Len(acc) : acc[k] # h
          THEN AppendNew(Append(acc, h), Tail(s))
          ELSE AppendNew(acc, Tail(s))

Range(s) == {s[k] : k \in 1..Len(s)}

\* the orders list(set(xs)) can produce
SetOrders(xs) ==
  {p \in [1..Len(xs) -> Range(xs)] : Range(p) = Range(xs)}

\* ------------------------------------------------------- error classifier
\* what check_instagram_login_status reads from the driver
LoginObs == [url_login : BOOLEAN, url_challenge : BOOLEAN, profile : BOOLEAN,
             nav : BOOLEAN, fault : {"none", "url", "find"}]

check_instagram_login_status(o) ==
  IF o.fault = "url" THEN FALSE
  ELSE IF o.url_login THEN FALSE
  ELSE IF o.url_challenge THEN FALSE
  ELSE IF o.fault = "find" THEN FALSE
  ELSE IF o.profile THEN TRUE
  ELSE o.nav

\* what detect_rate_limiting reads
RateObs == [phrase : BOOLEAN, status : BOOLEAN, fault : BOOLEAN]

detect_rate_limiting(o) ==
  IF o.fault THEN FALSE
  ELSE IF o.phrase THEN TRUE
  ELSE o.status

\* what check_account_blocked reads
BlockObs == [phrase : BOOLEAN, fault : BOOLEAN]

check_account_blocked(o) ==
  IF o.fault THEN FALSE ELSE o.phrase

ClassifierObs == [login : LoginObs, rate : RateObs, block : BlockObs, log_fault : BOOLEAN]

\* changed: the rate-limit check runs before the login check
handle_instagram_errors_rate_first(o, skip_login_check, skip_rate_limit_check) ==
  IF ~skip_rate_limit_check /\ detect_rate_limiting(o.rate)
  THEN IF o.log_fault THEN "unknown" ELSE "rate_limited"
  ELSE IF ~skip_login_check /\ ~check_instagram_login_status(o.login)
  THEN IF o.log_fault THEN "unknown" ELSE "login_required"
  ELSE IF check_account_blocked(o.block)
  THEN IF o.log_fault THEN "unknown" ELSE "blocked"
  ELSE "none"

\* log_fault: logger_instance.warning raises inside the try block
handle_instagram_errors(o, skip_login_check, skip_rate_limit_check) ==
  IF ~skip_login_check /\ ~check_instagram_login_status(o.login)
  THEN IF o.log_fault THEN "unknown" ELSE "login_required"
  ELSE IF ~skip_rate_limit_check /\ detect_rate_limiting(o.rate)
  THEN IF o.log_fault THEN "unknown" ELSE "rate_limited"
  ELSE IF check_account_blocked(o.block)
  THEN IF o.log_fault THEN "unknown" ELSE "blocked"
  ELSE "none"

\* ------------------------------------------------------- topic extractor
FirstPositive(f, n) ==
  IF \E k \in 1..n : f[k] > 0
  THEN f[CHOOSE k \in 1..n : f[k] > 0 /\ \A j \in 1..(k - 1) : f[j] = 0]
  ELSE 0

\* elems[k]: the count read through the k-th locator (0: no element, no
\* count-bearing text, or the locator raised); source[k]: the count matched
\* by the k-th page-source pattern (0: no match)
CountObs == [elems : [1..4 -> 0..MaxCount], source : [1..3 -> 0..MaxCount], fault : BOOLEAN]

_extract_post_count(o) ==
  IF FirstPositive(o.elems, 4) > 0 THEN FirstPositive(o.elems, 4)
  ELSE IF o.fault THEN 0
  ELSE FirstPositive(o.source, 3)

\* sel[k]: the tag names behind the anchors the k-th locator finds, NoMatch
\* for an anchor whose href has no tag path (an empty list also when the
\* locator raised)
RelatedObs == [sel : [1..3 -> BSeq(Tags \cup {NoMatch}, MaxLinks)], fault : BOOLEAN]

RECURSIVE RelatedFrom(_, _)
\* the related_tags list after the selector loop started at selector k
RelatedFrom(o, k) ==
  IF k > 3 THEN <<>>
  ELSE LET found == AppendNew(<<>>, PySlice(o.sel[k], RelatedCap))
       IN IF found # <<>> THEN found ELSE RelatedFrom(o, k + 1)

\* the set of lists _extract_related_tags can return: list(set(..))[:10]
_extract_related_tags(o) ==
  IF o.fault THEN {<<>>}
  ELSE {PySlice(p, RelatedCap) : p \in SetOrders(RelatedFrom(o, 1))}

\* links: post ids behind the anchors of the first locator, alt: of the
\* fallback locator; fault: the search itself raised
PostsObs == [links : BSeq(PostIds \cup {NoMatch}, MaxPostLinks),
             alt : BSeq(PostIds \cup {NoMatch}, MaxPostLinks), fault : BOOLEAN]

\* unique_urls[:max_posts] of _extract_top_posts
unique_urls(o, maxp) ==
  LET post_links == IF o.links = <<>> THEN o.alt ELSE o.links
  IN PySlice(AppendNew(<<>>, post_links), maxp)

\* what the calls of fetch_hashtag_info can yield over all the pages the
\* browser may show
\* what a claim about the entry point needs of the page classified
Shown(o) == [url_login |-> o.login.url_login, rate_phrase |-> o.rate.phrase]

\* <<skip_login_check, skip_rate_limit_check, error_type, page shown>>
error_types ==
  {<<sl, sr, handle_instagram_errors(o, sl, sr), Shown(o)>> :
     sl \in BOOLEAN, sr \in BOOLEAN, o \in ClassifierObs}

post_counts == {_extract_post_count(o) : o \in CountObs}

related_tags_lists == UNION {_extract_related_tags(o) : o \in RelatedObs}

\* <<max_posts, fault, urls>>: the search raised, or the urls
\* _extract_top_posts will visit
post_url_lists ==
  {<<maxp, o.fault, unique_urls(o, maxp)>> : maxp \in (-1)..MaxPostsBound, o \in PostsObs}

\* ------------------------------------------------------------------ state
VARIABLES
  mode,                   \* "gui": scraping_worker calls fetch_hashtag_data; "info": fetch_hashtag_info is called directly
  wpc, i, total_tags, is_running, execute_button, results,   \* InstagramScraperGUI
  pc, exc,                \* position in the fetch, exception in flight (None: none)
  ret,                    \* <<r>>: the record r was returned; <<>>: nothing returned yet
  skip_login_check, skip_rate_limit_check, max_retries, max_posts,
  self_driver,            \* scraper.driver: 0 is None, else the id of a driver
  quits,                  \* quits[d]: times driver d was quit; the started drivers are 1..Len(quits)
  hashtag_data, attempt, error_type,
  pending, posts,         \* _extract_top_posts: urls still to visit, posts collected
  navs, classifies, backoffs, backoff_log, post_navs, return_navs, extractions, cleanups,
  outcomes,               \* history: what each attempt so far met (a classification, or "exception")
  session_ok,             \* <<b>>: initialize_session returned b; <<>>: it has not returned
  info_calls,             \* calls of fetch_hashtag_info made by the current fetch_hashtag_data
  page,                   \* <<p>>: what the page just classified showed; <<>> outside a classification
  arg, res                \* a function called on its own: its input, and its result and driver calls

vars == <<mode, wpc, i, total_tags, is_running, execute_button, results, pc, exc, ret,
          skip_login_check, skip_rate_limit_check, max_retries, max_posts,
          self_driver, quits, hashtag_data, attempt, error_type, pending, posts,
          navs, classifies, backoffs, backoff_log, post_navs, return_navs, extractions, cleanups,
          outcomes, session_ok, info_calls, page, arg, res>>

gui_vars == <<wpc, i, total_tags, is_running, execute_button, results>>
unit_vars == <<arg, res>>
param_vars == <<skip_login_check, skip_rate_limit_check, max_retries, max_posts>>
loop_vars == <<hashtag_data, attempt, error_type, pending, posts, outcomes>>
count_vars == <<navs, classifies, backoffs, backoff_log, post_navs, return_navs, extractions>>

EmptyData == [post_count |-> 0, related_tags |-> <<>>, top_posts |-> <<>>, error |-> None]

ErrorRecord(msg) == [post_count |-> 0, related_tags |-> <<>>, top_posts |-> <<>>, error |-> msg]

Init ==
  /\ mode \in {"gui", "info"}
  /\ i = 0 /\ total_tags = 0 /\ is_running = FALSE /\ execute_button = "normal" /\ results = <<>>
  /\ exc = None /\ ret = <<>>
  /\ hashtag_data = EmptyData /\ attempt = 0 /\ error_type = None
  /\ pending = <<>> /\ posts = <<>>
  /\ navs = 0 /\ classifies = 0 /\ backoffs = 0 /\ backoff_log = <<>> /\ post_navs = 0
  /\ return_navs = 0 /\ extractions = 0 /\ cleanups = 0
  /\ outcomes = <<>> /\ session_ok = <<>> /\ info_calls = 0
  /\ page = <<>> /\ arg = <<>> /\ res = <<>>
  /\ IF mode = "gui"
     THEN /\ wpc = "idle" /\ pc = "idle"
          /\ skip_login_check = TRUE /\ skip_rate_limit_check = TRUE
          /\ max_retries = DefaultMaxRetries /\ max_posts = 1
          /\ self_driver = 0 /\ quits = <<>>
     ELSE /\ wpc = "direct" /\ pc = "info_entry"
          /\ skip_login_check \in BOOLEAN /\ skip_rate_limit_check \in BOOLEAN
          /\ max_retries \in (-1)..MaxRetriesBound
          /\ max_posts \in (-1)..MaxPostsBound
          /\ self_driver \in {0, 1}
          /\ quits = IF self_driver = 0 THEN <<>> ELSE <<0>>

\* ------------------------------------------------- fetch_hashtag_data
\* state of a fresh call: locals of fetch_hashtag_info and the counters
FreshCall ==
  /\ hashtag_data' = EmptyData /\ attempt' = 0 /\ error_type' = None
  /\ pending' = <<>> /\ posts' = <<>>
  /\ navs' = 0 /\ classifies' = 0 /\ backoffs' = 0 /\ backoff_log' = <<>>
  /\ post_navs' = 0 /\ return_navs' = 0 /\ extractions' = 0
  /\ outcomes' = <<>>

\* scraper = InstagramHashtagScraper(headless=headless): the constructor
\* builds InstagramLogin, whose mkdir can raise; it runs outside the try
Construct ==
  /\ pc = "construct"
  /\ \E ok \in BOOLEAN :
       IF ok THEN pc' = "setup_driver" /\ exc' = None
       ELSE pc' = "raised" /\ exc' = ExcMkdir
  /\ UNCHANGED <<mode, unit_vars, page, gui_vars, ret, param_vars, self_driver, quits, loop_vars, count_vars, cleanups,
                 session_ok, info_calls>>

\* initialize_session: self.driver = self.setup_driver().  webdriver.Chrome
\* may fail to start; execute_script may raise after the browser started.
\* Either exception is caught by initialize_session, which returns False.
\* changed: an exception of webdriver.Chrome leaves initialize_session
initialize_session_setup_uncaught(outcome) ==
  /\ outcome = "chrome_failed" =>
       /\ quits' = quits /\ self_driver' = self_driver /\ pc' = "cleanup"
       /\ session_ok' = session_ok /\ exc' = ExcNavigation
  /\ outcome = "script_failed" =>
       /\ quits' = Append(quits, 0) /\ self_driver' = self_driver /\ pc' = "init_failed"
       /\ session_ok' = <<FALSE>> /\ exc' = exc
  /\ outcome = "ok" =>
       /\ quits' = Append(quits, 0) /\ self_driver' = Len(quits) + 1 /\ pc' = "load_cookies"
       /\ session_ok' = session_ok /\ exc' = exc

initialize_session_setup(outcome) ==
  /\ outcome = "chrome_failed" =>
       /\ quits' = quits /\ self_driver' = self_driver /\ pc' = "init_failed"
       /\ session_ok' = <<FALSE>> /\ exc' = exc
  /\ outcome = "script_failed" =>
       /\ quits' = Append(quits, 0) /\ self_driver' = self_driver /\ pc' = "init_failed"
       /\ session_ok' = <<FALSE>> /\ exc' = exc
  /\ outcome = "ok" =>
       /\ quits' = Append(quits, 0) /\ self_driver' = Len(quits) + 1 /\ pc' = "load_cookies"
       /\ session_ok' = session_ok /\ exc' = exc

SetupDriver ==
  /\ pc = "setup_driver"
  /\ \E outcome \in {"chrome_failed", "script_failed", "ok"} : initialize_session_setup(outcome)
  /\ UNCHANGED <<mode, unit_vars, page, gui_vars, ret, param_vars, loop_vars, count_vars, cleanups,
                 info_calls>>

\* what load_cookies meets: the bundle file, a fault while replaying it, and
\* the URL after the reload
CookieObs == [bundle : {"missing", "expired", "valid"}, fault : BOOLEAN, on_login_page : BOOLEAN]

load_cookies(o) ==
  IF o.bundle # "valid" THEN FALSE
  ELSE IF o.fault THEN FALSE
  ELSE ~o.on_login_page

LoadCookies ==
  /\ pc = "load_cookies"
  /\ \E o \in CookieObs :
       /\ session_ok' = <<load_cookies(o)>>
       /\ pc' = IF load_cookies(o) THEN "info_entry" ELSE "init_failed"
  /\ UNCHANGED <<mode, unit_vars, page, gui_vars, exc, ret, param_vars, self_driver, quits, loop_vars, count_vars, cleanups,
                 info_calls>>

\* if not scraper.initialize_session(): return {... error ...}
SessionFailed ==
  /\ pc = "init_failed"
  /\ ret' = <<ErrorRecord(ErrSessionInit)>>
  /\ pc' = "cleanup"
  /\ UNCHANGED <<mode, unit_vars, page, gui_vars, exc, param_vars, self_driver, quits, loop_vars, count_vars, cleanups,
                 session_ok, info_calls>>

\* finally: scraper.cleanup()
cleanup_quits(d, q) == IF d # 0 THEN [q EXCEPT ![d] = @ + 1] ELSE q

Cleanup ==
  /\ pc = "cleanup"
  /\ quits' = cleanup_quits(self_driver, quits)
  /\ self_driver' = 0
  /\ cleanups' = cleanups + 1
  /\ pc' = IF exc = None THEN "returned" ELSE "raised"
  /\ UNCHANGED <<mode, unit_vars, page, gui_vars, exc, ret, param_vars, loop_vars, count_vars,
                 session_ok, info_calls>>

\* ------------------------------------------------- fetch_hashtag_info
\* where a call of fetch_hashtag_info goes when it ends
AfterInfo == IF mode = "gui" THEN "cleanup" ELSE IF exc = None THEN "returned" ELSE "raised"

FetchInfoEntry ==
  /\ pc = "info_entry"
  /\ info_calls' = info_calls + 1
  /\ IF self_driver = 0
     THEN /\ exc' = ErrNoSession
          /\ pc' = IF mode = "gui" THEN "cleanup" ELSE "raised"
          /\ UNCHANGED <<loop_vars, count_vars>>
     ELSE /\ FreshCall
          /\ pc' = "loop"
          /\ UNCHANGED exc
  /\ UNCHANGED <<mode, unit_vars, page, gui_vars, ret, param_vars, self_driver, quits, cleanups,
                 session_ok>>

\* changed: the loop runs while attempt <= max_retries
LoopHead_one_more ==
  /\ pc = "loop"
  /\ pc' = IF attempt <= max_retries THEN "navigate" ELSE "info_return"
  /\ UNCHANGED <<mode, unit_vars, page, gui_vars, exc, ret, param_vars, self_driver, quits, loop_vars, count_vars, cleanups,
                 session_ok, info_calls>>

\* for attempt in range(max_retries); after the loop: return hashtag_data
LoopHead ==
  /\ pc = "loop"
  /\ pc' = IF attempt < max_retries THEN "navigate" ELSE "info_return"
  /\ UNCHANGED <<mode, unit_vars, page, gui_vars, exc, ret, param_vars, self_driver, quits, loop_vars, count_vars, cleanups,
                 session_ok, info_calls>>

\* self.driver.get(hashtag_data["url"]); human_sleep(8.0, 10.0)
Navigate ==
  /\ pc = "navigate"
  /\ navs' = navs + 1
  /\ \E ok \in BOOLEAN :
       IF ok THEN pc' = "classify" /\ exc' = None /\ outcomes' = outcomes
       ELSE pc' = "except" /\ exc' = ExcNavigation /\ outcomes' = Append(outcomes, "exception")
  /\ UNCHANGED <<mode, unit_vars, page, gui_vars, ret, param_vars, self_driver, quits,
                 hashtag_data, attempt, error_type, pending, posts,
                 classifies, backoffs, backoff_log, post_navs, return_navs, extractions, cleanups,
                 session_ok, info_calls>>

\* error_type = handle_instagram_errors(...)
Classify ==
  /\ pc = "classify"
  /\ classifies' = classifies + 1
  /\ \E et \in error_types :
       /\ et[1] = skip_login_check /\ et[2] = skip_rate_limit_check
       /\ error_type' = et[3]
       /\ page' = <<et[4]>>
  /\ outcomes' = Append(outcomes, error_type')
  /\ pc' = "branch"
  /\ UNCHANGED <<mode, unit_vars, gui_vars, exc, ret, param_vars, self_driver, quits,
                 hashtag_data, attempt, pending, posts,
                 navs, backoffs, backoff_log, post_navs, return_navs, extractions, cleanups,
                 session_ok, info_calls>>

\* the if / elif chain on error_type: the position reached and the error set
\* changed: the blocked branch has lost its return
branch_target_blocked_falls_through(et, att, maxr) ==
  IF et = "login_required" THEN "info_return"
  ELSE IF et = "rate_limited" THEN (IF att < maxr - 1 THEN "backoff" ELSE "info_return")
  ELSE "extract_count"

\* changed: login_required is retried like rate_limited
branch_target_login_retried(et, att, maxr) ==
  IF et \in {"login_required", "rate_limited"}
  THEN (IF att < maxr - 1 THEN "backoff" ELSE "info_return")
  ELSE IF et = "blocked" THEN "info_return"
  ELSE "extract_count"

\* changed: attempt < max_retries, so the last attempt backs off too
branch_target_off_by_one(et, att, maxr) ==
  IF et = "login_required" THEN "info_return"
  ELSE IF et = "rate_limited" THEN (IF att < maxr THEN "backoff" ELSE "info_return")
  ELSE IF et = "blocked" THEN "info_return"
  ELSE "extract_count"

branch_target(et, att, maxr) ==
  IF et = "login_required" THEN "info_return"
  ELSE IF et = "rate_limited" THEN (IF att < maxr - 1 THEN "backoff" ELSE "info_return")
  ELSE IF et = "blocked" THEN "info_return"
  ELSE "extract_count"

\* changed: the rate-limit error is set before the retry as well
branch_error_set_early(cur, et, att, maxr) ==
  IF et = "login_required" THEN ErrLoginRequired
  ELSE IF et = "rate_limited" THEN ErrRateLimited
  ELSE IF et = "blocked" THEN ErrBlocked
  ELSE cur

branch_error(cur, et, att, maxr) ==
  IF et = "login_required" THEN ErrLoginRequired
  ELSE IF et = "rate_limited" THEN (IF att < maxr - 1 THEN cur ELSE ErrRateLimited)
  ELSE IF et = "blocked" THEN ErrBlocked
  ELSE cur

Branch ==
  /\ pc = "branch"
  /\ pc' = branch_target(error_type, attempt, max_retries)
  /\ hashtag_data' = [hashtag_data EXCEPT !.error = branch_error(@, error_type, attempt, max_retries)]
  /\ page' = <<>>
  /\ UNCHANGED <<mode, unit_vars, gui_vars, exc, ret, param_vars, self_driver, quits,
                 attempt, error_type, pending, posts, count_vars, cleanups,
                 outcomes, session_ok, info_calls>>

\* exponential_backoff_sleep(attempt, base_delay=suggestion['wait_time']); continue
RateLimitBackoff ==
  /\ pc = "backoff"
  /\ backoffs' = backoffs + 1
  /\ backoff_log' = Append(backoff_log, <<attempt, RateLimitWaitTime>>)
  /\ attempt' = attempt + 1
  /\ pc' = "loop"
  /\ UNCHANGED <<mode, unit_vars, page, gui_vars, exc, ret, param_vars, self_driver, quits,
                 hashtag_data, error_type, pending, posts,
                 navs, classifies, post_navs, return_navs, extractions, cleanups,
                 outcomes, session_ok, info_calls>>

\* except Exception as e: backoff if attempts remain, else set the error
\* changed: attempt < max_retries, so the error is never set
except_error_off_by_one(cur, att, maxr, e) == IF att < maxr THEN cur ELSE ErrMaxRetries \o e

except_error(cur, att, maxr, e) == IF att < maxr - 1 THEN cur ELSE ErrMaxRetries \o e

ExceptHandler ==
  /\ pc = "except"
  /\ IF attempt < max_retries - 1
     THEN /\ backoffs' = backoffs + 1
          /\ backoff_log' = Append(backoff_log, <<attempt, BackoffBaseDefault>>)
     ELSE UNCHANGED <<backoffs, backoff_log>>
  /\ hashtag_data' = [hashtag_data EXCEPT !.error = except_error(@, attempt, max_retries, exc)]
  /\ exc' = None
  /\ attempt' = attempt + 1
  /\ pc' = "loop"
  /\ UNCHANGED <<mode, unit_vars, page, gui_vars, ret, param_vars, self_driver, quits,
                 error_type, pending, posts,
                 navs, classifies, post_navs, return_navs, extractions, cleanups,
                 outcomes, session_ok, info_calls>>

\* hashtag_data["post_count"] = self._extract_post_count()
ExtractCount ==
  /\ pc = "extract_count"
  /\ \E c \in post_counts :
       hashtag_data' = [hashtag_data EXCEPT !.post_count = c]
  /\ pc' = "extract_related"
  /\ UNCHANGED <<mode, unit_vars, page, gui_vars, exc, ret, param_vars, self_driver, quits,
                 attempt, error_type, pending, posts, count_vars, cleanups,
                 outcomes, session_ok, info_calls>>

\* hashtag_data["related_tags"] = self._extract_related_tags()
ExtractRelated ==
  /\ pc = "extract_related"
  /\ \E r \in related_tags_lists :
       hashtag_data' = [hashtag_data EXCEPT !.related_tags = r]
  /\ pc' = "extract_posts"
  /\ UNCHANGED <<mode, unit_vars, page, gui_vars, exc, ret, param_vars, self_driver, quits,
                 attempt, error_type, pending, posts, count_vars, cleanups,
                 outcomes, session_ok, info_calls>>

\* _extract_top_posts up to the loop over unique_urls[:max_posts]; a fault
\* in the search or in reading current_url makes it return [] at once
ExtractPostsStart ==
  /\ pc = "extract_posts"
  /\ \E u \in post_url_lists :
       /\ u[1] = max_posts
       /\ IF u[2]
          THEN /\ hashtag_data' = [hashtag_data EXCEPT !.top_posts = <<>>]
               /\ extractions' = extractions + 1
               /\ pc' = "info_return"
               /\ UNCHANGED <<pending, posts>>
          ELSE /\ pending' = u[3]
               /\ posts' = <<>>
               /\ pc' = "post_loop"
               /\ UNCHANGED <<hashtag_data, extractions>>
  /\ UNCHANGED <<mode, unit_vars, page, gui_vars, exc, ret, param_vars, self_driver, quits,
                 attempt, error_type, navs, classifies, backoffs, backoff_log,
                 post_navs, return_navs, cleanups,
                 outcomes, session_ok, info_calls>>

\* changed: a failed visit drops the posts collected so far
visit_post_failure_drops_posts(ps, url, ok) == IF ok THEN Append(ps, url) ELSE <<>>

\* one iteration of the post loop: self.driver.get(post_url), then
\* _extract_post_from_page; a failed visit is logged and skipped
visit_post(ps, url, ok) == IF ok THEN Append(ps, url) ELSE ps

PostVisit ==
  /\ pc = "post_loop"
  /\ pending # <<>>
  /\ post_navs' = post_navs + 1
  /\ \E ok \in BOOLEAN : posts' = visit_post(posts, Head(pending), ok)
  /\ pending' = Tail(pending)
  /\ UNCHANGED <<mode, unit_vars, page, gui_vars, pc, exc, ret, param_vars, self_driver, quits,
                 hashtag_data, attempt, error_type,
                 navs, classifies, backoffs, backoff_log, return_navs, extractions, cleanups,
                 outcomes, session_ok, info_calls>>

\* self.driver.get(original_url) (its failure is ignored); return posts;
\* hashtag_data["top_posts"] = ...
ReturnNav ==
  /\ pc = "post_loop"
  /\ pending = <<>>
  /\ return_navs' = return_navs + 1
  /\ hashtag_data' = [hashtag_data EXCEPT !.top_posts = posts]
  /\ extractions' = extractions + 1
  /\ pc' = "info_return"
  /\ UNCHANGED <<mode, unit_vars, page, gui_vars, exc, ret, param_vars, self_driver, quits,
                 attempt, error_type, pending, posts,
                 navs, classifies, backoffs, backoff_log, post_navs, cleanups,
                 outcomes, session_ok, info_calls>>

\* return hashtag_data
InfoReturn ==
  /\ pc = "info_return"
  /\ ret' = <<hashtag_data>>
  /\ pc' = AfterInfo
  /\ UNCHANGED <<mode, unit_vars, page, gui_vars, exc, param_vars, self_driver, quits, loop_vars, count_vars, cleanups,
                 session_ok, info_calls>>

\* ------------------------------------------------- InstagramScraperGUI
\* execute_scraping: starts scraping_worker on a background thread
ExecuteScraping ==
  /\ mode = "gui" /\ wpc = "idle"
  /\ ~is_running
  /\ \E n \in 1..NumTags : total_tags' = n
  /\ is_running' = TRUE
  /\ execute_button' = "disabled"
  /\ i' = 0 /\ results' = <<>>
  /\ wpc' = "check"
  /\ UNCHANGED <<mode, unit_vars, page, pc, exc, ret, param_vars, self_driver, quits, loop_vars, count_vars, cleanups,
                 session_ok, info_calls>>

\* stop_scraping, on the GUI thread
StopScraping ==
  /\ mode = "gui" /\ wpc \notin {"idle", "finished"}
  /\ is_running
  /\ is_running' = FALSE
  /\ UNCHANGED <<mode, unit_vars, page, wpc, i, total_tags, execute_button, results, pc, exc, ret, param_vars,
                 self_driver, quits, loop_vars, count_vars, cleanups,
                 session_ok, info_calls>>

\* changed: the loop has no stop check
WorkerCheck_no_stop_check ==
  /\ wpc = "check"
  /\ wpc' = IF i < total_tags THEN "call" ELSE "after_loop"
  /\ UNCHANGED <<mode, unit_vars, page, i, total_tags, is_running, execute_button, results, pc, exc, ret,
                 param_vars, self_driver, quits, loop_vars, count_vars, cleanups,
                 session_ok, info_calls>>

\* for i, hashtag in enumerate(hashtags): if not self.is_running: break
WorkerCheck ==
  /\ wpc = "check"
  /\ wpc' = IF i < total_tags /\ is_running THEN "call" ELSE "after_loop"
  /\ UNCHANGED <<mode, unit_vars, page, i, total_tags, is_running, execute_button, results, pc, exc, ret,
                 param_vars, self_driver, quits, loop_vars, count_vars, cleanups,
                 session_ok, info_calls>>

\* result = fetch_hashtag_data(hashtag, self.headless_var.get(), max_posts)
WorkerCall ==
  /\ wpc = "call"
  /\ \E mp \in 1..MaxPostsBound : max_posts' = mp
  /\ wpc' = "in_fetch"
  /\ pc' = "construct"
  /\ exc' = None /\ ret' = <<>>
  /\ session_ok' = <<>> /\ info_calls' = 0
  /\ FreshCall
  /\ UNCHANGED <<mode, unit_vars, page, i, total_tags, is_running, execute_button, results,
                 skip_login_check, skip_rate_limit_check, max_retries, self_driver, quits, cleanups>>

\* results.append(result), or the error result of the except branch; of
\* each appended record the list keeps the error field, which is what
\* scraping_completed counts
worker_result(p, r, e) == IF p = "returned" THEN r[1].error ELSE e

WorkerResult ==
  /\ wpc = "in_fetch"
  /\ pc \in {"returned", "raised"}
  /\ results' = Append(results, worker_result(pc, ret, exc))
  /\ i' = i + 1
  /\ wpc' = "check"
  /\ pc' = "idle"
  /\ UNCHANGED <<mode, unit_vars, page, total_tags, is_running, execute_button, exc, ret, param_vars,
                 self_driver, quits, loop_vars, count_vars, cleanups,
                 session_ok, info_calls>>

\* if self.is_running: scraping_completed(results), whose finally clause
\* calls scraping_finished
WorkerAfterLoop ==
  /\ wpc = "after_loop"
  /\ wpc' = "finished"
  /\ IF is_running
     THEN is_running' = FALSE /\ execute_button' = "normal"
     ELSE UNCHANGED <<is_running, execute_button>>
  /\ UNCHANGED <<mode, unit_vars, page, i, total_tags, results, pc, exc, ret, param_vars,
                 self_driver, quits, loop_vars, count_vars, cleanups,
                 session_ok, info_calls>>

Next ==
  \/ Construct \/ SetupDriver \/ LoadCookies \/ SessionFailed \/ Cleanup
  \/ FetchInfoEntry \/ LoopHead \/ Navigate \/ Classify \/ Branch
  \/ RateLimitBackoff \/ ExceptHandler
  \/ ExtractCount \/ ExtractRelated \/ ExtractPostsStart \/ PostVisit \/ ReturnNav
  \/ InfoReturn
  \/ ExecuteScraping \/ StopScraping \/ WorkerCheck \/ WorkerCall \/ WorkerResult
  \/ WorkerAfterLoop

Spec == Init /\ [][Next]_vars

\* the thread that runs a fetch keeps running: every wait in it is a
\* bounded sleep or a wait with a timeout
FetchStep ==
  \/ Construct \/ SetupDriver \/ LoadCookies \/ SessionFailed \/ Cleanup
  \/ FetchInfoEntry \/ LoopHead \/ Navigate \/ Classify \/ Branch
  \/ RateLimitBackoff \/ ExceptHandler
  \/ ExtractCount \/ ExtractRelated \/ ExtractPostsStart \/ PostVisit \/ ReturnNav
  \/ InfoReturn

FairSpec == Spec /\ WF_vars(FetchStep)

\* ------------------------------------------------------------- properties
InfoPcs == {"loop", "navigate", "classify", "branch", "backoff", "except", "extract_count",
            "extract_related", "extract_posts", "post_loop", "info_return"}

ExtractPcs == {"extract_count", "extract_related", "extract_posts", "post_loop"}

Last(s) == s[Len(s)]

Exclusive(r) ==
  r.error # None => r.post_count = 0 /\ r.related_tags = <<>> /\ r.top_posts = <<>>

\* C1: mutual exclusivity.  The record fetch_hashtag_info is about to return
\* and every record returned by fetch_hashtag_info or fetch_hashtag_data has,
\* when its error is set, post_count 0 and empty related_tags and top_posts.
C1_MutualExclusivity ==
  /\ ret # <<>> => Exclusive(ret[1])
  /\ pc = "info_return" => Exclusive(hashtag_data)

\* an error record returned after more than one attempt
C1_Witness ==
  /\ pc = "returned" /\ ret # <<>> /\ ret[1].error # None
  /\ Len(outcomes) >= 2 /\ navs >= 2

TerminalMessage(et) == IF et = "login_required" THEN ErrLoginRequired ELSE ErrBlocked

\* C2: no retry on terminal classifications.  From the moment an attempt is
\* classified login_required or blocked until the call has returned, every
\* step leaves the counts of navigations, classifications, backoff waits,
\* post visits and extractions unchanged, leads only towards the return, and
\* leaves the record with the message of that classification and no data.
C2_NoRetryOnTerminal ==
  [][(error_type \in {"login_required", "blocked"} /\ pc \in {"branch", "info_return", "cleanup"})
       => /\ UNCHANGED <<count_vars, attempt>>
          /\ \/ UNCHANGED <<pc, hashtag_data, ret>>
             \/ /\ pc' \in {"info_return", "cleanup", "returned"}
                /\ hashtag_data' = ErrorRecord(TerminalMessage(error_type))
                /\ ret' \in {<<>>, <<hashtag_data'>>}]_vars

\* login_required on the first attempt of a call that had attempts left
C2_Witness ==
  /\ pc = "returned" /\ error_type = "login_required" /\ max_retries >= 2
  /\ navs = 1 /\ backoffs = 0 /\ ret = <<ErrorRecord(ErrLoginRequired)>>

AllRateLimited ==
  /\ outcomes # <<>>
  /\ \A k \in 1..Len(outcomes) : outcomes[k] = "rate_limited"

\* C3: exhausted retries.  A call in which every attempt was classified
\* rate_limited returns the record with the rate-limit message and no data,
\* after exactly max_retries navigations and max_retries - 1 backoff waits.
C3_ExhaustedRetries ==
  (pc = "returned" /\ AllRateLimited)
    => /\ ret = <<ErrorRecord(ErrRateLimited)>>
       /\ Len(outcomes) = max_retries
       /\ navs = max_retries
       /\ backoffs = max_retries - 1

\* at least two attempts, all rate limited
C3_Witness ==
  /\ pc = "returned" /\ AllRateLimited /\ max_retries >= 2 /\ navs = max_retries

RateLimitedThenNone ==
  /\ outcomes # <<>>
  /\ Last(outcomes) = "none"
  /\ \A k \in 1..(Len(outcomes) - 1) : outcomes[k] = "rate_limited"

\* C4: transient rate limit then success.  A call whose attempts 0..k-1 were
\* classified rate_limited and whose attempt k was classified none returns
\* the extracted record with a null error, after exactly k backoff waits and
\* k+1 classifications.
C4_RateLimitThenSuccess ==
  (pc = "returned" /\ RateLimitedThenNone)
    => /\ ret = <<hashtag_data>> /\ ret[1].error = None
       /\ extractions = 1
       /\ backoffs = Len(outcomes) - 1
       /\ classifies = Len(outcomes)
       /\ navs = Len(outcomes)

\* one rate limit, then a successful extraction that found a count
C4_Witness ==
  /\ pc = "returned" /\ outcomes = <<"rate_limited", "none">>
  /\ backoffs = 1 /\ ret[1].error = None /\ ret[1].post_count > 0

\* C5: unexpected failure handling.  When an attempt raises, the handler
\* applies one backoff wait if attempts remain and the loop navigates again;
\* on the last attempt it sets the error to the max-retries message carrying
\* the exception text, which is the record returned.  No exception raised
\* inside an attempt reaches the caller.
C5_UnexpectedFailure ==
  /\ [](pc = "raised" => exc \in {ErrNoSession, ExcMkdir})
  /\ []((pc = "returned" /\ outcomes # <<>> /\ Last(outcomes) = "exception")
          => ret = <<ErrorRecord(ErrMaxRetries \o ExcNavigation)>>)
  /\ [][(pc = "except" /\ pc' # "except")
          => /\ pc' = "loop" /\ attempt' = attempt + 1 /\ navs' = navs
             /\ IF attempt < max_retries - 1
                THEN backoffs' = backoffs + 1 /\ hashtag_data' = hashtag_data
                ELSE backoffs' = backoffs /\ hashtag_data' = ErrorRecord(ErrMaxRetries \o exc)]_vars
  /\ [][(pc = "loop" /\ attempt < max_retries) => pc' \in {"loop", "navigate"}]_vars

\* a failure in every attempt of a call with at least two attempts
C5_Witness ==
  /\ pc = "returned" /\ Len(outcomes) >= 2 /\ Last(outcomes) = "exception"
  /\ backoffs >= 1 /\ ret[1].error = ErrMaxRetries \o ExcNavigation

\* C6: the entry point returns a record.  fetch_hashtag_data raises only
\* when the scraper could not be constructed; once the session set-up has
\* begun it returns a record whatever the session, the classifier and the
\* navigation do.  When initialize_session returned False the record is the
\* session-initialization error record and fetch_hashtag_info was not called.
C6_EntryPointReturnsRecord ==
  mode = "gui"
    => /\ pc = "raised" => (exc = ExcMkdir /\ session_ok = <<>> /\ info_calls = 0)
       /\ session_ok = <<FALSE>>
            => /\ info_calls = 0 /\ navs = 0 /\ pc # "raised"
               /\ pc \in {"cleanup", "returned"} => ret = <<ErrorRecord(ErrSessionInit)>>

\* fetch_hashtag_data has returned after a failed session initialization
\* in which the browser had been started
C6_Witness ==
  /\ mode = "gui" /\ pc = "returned" /\ session_ok = <<FALSE>>
  /\ ret = <<ErrorRecord(ErrSessionInit)>> /\ quits # <<>>

\* C7: guaranteed release.  When fetch_hashtag_data has returned or raised,
\* every browser started so far has been quit exactly once.
C7_GuaranteedRelease ==
  (mode = "gui" /\ pc \in {"returned", "raised"})
    => \A d \in 1..Len(quits) : quits[d] = 1

\* C8 as claimed: the topic URL is navigated to at most max_retries times and
\* the backoff wait is invoked at most max(max_retries - 1, 0) times.
C8_AsClaimed ==
  /\ navs + return_navs <= Max(max_retries, 0)
  /\ backoffs <= Max(max_retries - 1, 0)

\* C8 amended: the retry loop itself navigates to the topic URL at most
\* max_retries times, once per iteration, with at most one classification
\* per iteration and at most max(max_retries - 1, 0) backoff waits; the
\* extractor adds at most one navigation back to the topic page, in the
\* attempt that extracts; and the loop terminates.
C8_BoundedRetryLoop ==
  /\ [](/\ navs <= Max(max_retries, 0)
        /\ attempt <= Max(max_retries, 0)
        /\ return_navs <= 1 /\ return_navs <= extractions
        /\ navs + return_navs <= Max(max_retries, 0) + 1
        /\ backoffs <= Max(max_retries - 1, 0)
        /\ classifies <= navs
        /\ pc \in {"loop", "navigate"} => navs = attempt
        /\ pc \in (InfoPcs \ {"loop", "navigate", "info_return"}) => navs = attempt + 1)
  /\ (pc = "loop") ~> (pc = "info_return")

\* a call that used all its attempts and whose last attempt extracted
C8_Witness ==
  /\ pc = "returned" /\ max_retries >= 2 /\ navs = max_retries
  /\ return_navs = 1 /\ backoffs = max_retries - 1

\* C9 as claimed: once the stop signal is set during a fetch, that fetch
\* begins no further navigation, backoff wait or post visit.
C9_AsClaimed ==
  [][(mode = "gui" /\ wpc = "in_fetch" /\ ~is_running)
       => UNCHANGED <<navs, backoffs, post_navs, return_navs>>]_vars

\* C9 amended: the stop signal is read only by the worker's check at the top
\* of its loop over the topics.  Once that check has seen the signal the
\* worker leaves the loop and starts no further fetch; a fetch that has been
\* started is left only when it has returned or raised.
C9_StopCheckedBetweenTopics ==
  /\ [][(mode = "gui" /\ ~is_running /\ wpc \in {"check", "after_loop", "finished"})
          => /\ wpc' \in {"after_loop", "finished"}
             /\ UNCHANGED <<pc, i, results, info_calls, count_vars>>]_vars
  /\ [][(wpc = "in_fetch" /\ wpc' # "in_fetch") => pc \in {"returned", "raised"}]_vars

\* the worker has finished after a stop with a topic left unfetched
C9_Witness ==
  /\ wpc = "finished" /\ ~is_running /\ execute_button = "disabled"
  /\ i >= 1 /\ i < total_tags

\* C10: unknown classification is transient.  Extraction does not run in an
\* attempt classified unknown, and a call whose last attempt was classified
\* unknown does not return a null error.
C10_UnknownIsTransient ==
  /\ pc \in ExtractPcs => error_type # "unknown"
  /\ (pc = "returned" /\ outcomes # <<>> /\ Last(outcomes) = "unknown") => ret[1].error # None

NoDuplicates(s) == \A a, b \in 1..Len(s) : a # b => s[a] # s[b]

\* C11: record bounds.  Every returned record has post_count >= 0, at most
\* 10 related tags without duplicates, and at most max_posts top posts (none
\* when max_posts is negative) without two entries of the same post.
C11_RecordBounds ==
  ret # <<>>
    => /\ ret[1].post_count >= 0
       /\ Len(ret[1].related_tags) <= RelatedCap /\ NoDuplicates(ret[1].related_tags)
       /\ Len(ret[1].top_posts) <= Max(max_posts, 0) /\ NoDuplicates(ret[1].top_posts)

\* ------------------------------------------- functions called on their own
\* everything but mode, pc, the skip flags, arg and res
rest_vars == <<gui_vars, exc, ret, max_retries, max_posts, self_driver, quits, loop_vars,
               count_vars, cleanups, session_ok, info_calls, page>>

RestInit ==
  /\ wpc = "unit" /\ i = 0 /\ total_tags = 0 /\ is_running = FALSE
  /\ execute_button = "normal" /\ results = <<>>
  /\ exc = None /\ ret = <<>> /\ max_retries = DefaultMaxRetries /\ max_posts = 1
  /\ self_driver = 0 /\ quits = <<>>
  /\ hashtag_data = EmptyData /\ attempt = 0 /\ error_type = None
  /\ pending = <<>> /\ posts = <<>> /\ outcomes = <<>>
  /\ navs = 0 /\ classifies = 0 /\ backoffs = 0 /\ backoff_log = <<>> /\ post_navs = 0
  /\ return_navs = 0 /\ extractions = 0 /\ cleanups = 0
  /\ session_ok = <<>> /\ info_calls = 0 /\ page = <<>>

\* a URL and a topic name as the list of their parts: 'x' in url is
\* membership of the part x
LoginMarker == "accounts/login"
ChallengeMarker == "challenge"
TopicNames == {<<"travel">>, <<"dance", "challenge">>}

\* hashtag_data["url"] for the cleaned topic name
CanonicalUrl(topic) == <<"https://www.instagram.com", "explore", "tags">> \o topic

\* where the navigation may land: the topic page, the login page, a challenge page
LandedUrls(topic) ==
  {CanonicalUrl(topic), <<"https://www.instagram.com", LoginMarker>>,
   <<"https://www.instagram.com", ChallengeMarker>>}

UrlHas(url, marker) == marker \in Range(url)

\* a page as the classifier meets it after fetch_hashtag_info navigated to
\* the topic: the URL landed on, the landmarks, the texts, and what raises
TopicPages ==
  UNION {[url : LandedUrls(t), profile : BOOLEAN, nav : BOOLEAN, fault : {"none", "url", "find"},
          rate : RateObs, block : BlockObs, log_fault : BOOLEAN] : t \in TopicNames}

\* what the three checks read of a page
Reads(p) ==
  [login |-> [url_login |-> UrlHas(p.url, LoginMarker),
              url_challenge |-> UrlHas(p.url, ChallengeMarker),
              profile |-> p.profile, nav |-> p.nav, fault |-> p.fault],
   rate |-> p.rate, block |-> p.block, log_fault |-> p.log_fault]

ClassifierInit ==
  /\ mode = "classifier" /\ pc = "call"
  /\ arg \in TopicPages /\ res = <<>>
  /\ skip_login_check \in BOOLEAN /\ skip_rate_limit_check \in BOOLEAN
  /\ RestInit

\* handle_instagram_errors(driver, logger, skip_login_check, skip_rate_limit_check)
CallClassifier ==
  /\ mode = "classifier" /\ pc = "call"
  /\ res' = <<handle_instagram_errors(Reads(arg), skip_login_check, skip_rate_limit_check)>>
  /\ pc' = "done"
  /\ UNCHANGED <<mode, arg, skip_login_check, skip_rate_limit_check, rest_vars>>

\* ------------------------------------------------ exponential_backoff_sleep
\* delays are whole seconds, jitter and waits are tenths of a second
Tenths == 10

RECURSIVE Pow2(_)
Pow2(n) == IF n = 0 THEN 1 ELSE 2 * Pow2(n - 1)

\* changed: base_delay * 2 * attempt
capped_delay_linear(n, base_delay, max_delay) == Min(base_delay * 2 * n, max_delay)

\* delay = min(base_delay * (2 ** attempt), max_delay)
capped_delay(n, base_delay, max_delay) == Min(base_delay * Pow2(n), max_delay)

\* changed: random.uniform(0, delay * 0.2)
JitterDraws_double(delay) == 0..(2 * delay)

\* what random.uniform(0, delay * 0.1) can return, in tenths
JitterDraws(delay) == 0..delay

\* final_delay = delay + jitter, in tenths
final_delay(delay, jitter) == Tenths * delay + jitter

BackoffInit ==
  /\ mode = "backoff" /\ pc = "call"
  /\ arg \in [attempt : 0..MaxAttempt, base_delay : 0..MaxBase, max_delay : 0..MaxCap]
  /\ res = <<>>
  /\ skip_login_check = TRUE /\ skip_rate_limit_check = TRUE
  /\ RestInit

\* exponential_backoff_sleep(attempt, base_delay, max_delay), called for
\* arg.attempt and then for the attempt after it; res: the waits slept
CallBackoff ==
  /\ mode = "backoff" /\ pc = "call"
  /\ LET delay == capped_delay(arg.attempt + Len(res), arg.base_delay, arg.max_delay)
     IN \E jitter \in JitterDraws(delay) : res' = Append(res, final_delay(delay, jitter))
  /\ pc' = IF Len(res) = 1 THEN "done" ELSE "call"
  /\ UNCHANGED <<mode, arg, skip_login_check, skip_rate_limit_check, rest_vars>>

\* ------------------------------------- initialize_session and load_cookies
\* the age of the bundle (now - saved_at) and the lifetime, in days
CookieTTL == 7

\* changed: a bundle exactly 7 days old counts as expired
cookie_expired_inclusive(age) == age >= CookieTTL

\* time.time() - saved_time > 7 * 24 * 3600
cookie_expired(age) == age > CookieTTL

\* changed: the page is not reloaded before the verification
after_cookies_no_reload == "lc_verify"

\* what follows the loop over the cookies: driver.refresh()
after_cookies == "lc_refresh"

\* return "instagram.com/accounts/login" not in current_url
_verify_login_by_url(url_login) == ~url_login

\* file: the bundle file is missing, cannot be parsed, or is read; age: of
\* the bundle read; cookies: how many cookies it holds
SessionInit ==
  /\ mode = "session" /\ pc = "setup_driver"
  /\ arg \in [file : {"missing", "unreadable", "ok"}, age : (-1)..MaxAge, cookies : 0..MaxCookies]
  /\ res = [calls |-> <<>>, loaded |-> FALSE, url_login |-> <<>>, result |-> <<>>]
  /\ skip_login_check = TRUE /\ skip_rate_limit_check = TRUE
  /\ RestInit

\* initialize_session returns b
SessionReturn(r, b) == [r EXCEPT !.result = <<b>>]

\* self.driver = self.setup_driver(): an exception is caught, return False
SessionSetup ==
  /\ mode = "session" /\ pc = "setup_driver"
  /\ \E ok \in BOOLEAN :
       IF ok THEN pc' = "lc_open" /\ res' = res
       ELSE pc' = "done" /\ res' = SessionReturn(res, FALSE)
  /\ UNCHANGED <<mode, arg, skip_login_check, skip_rate_limit_check, rest_vars>>

\* load_cookies up to the expiry test: exists(), json.load, saved_at
LcOpen ==
  /\ mode = "session" /\ pc = "lc_open"
  /\ IF arg.file # "ok" \/ cookie_expired(arg.age)
     THEN pc' = "done" /\ res' = SessionReturn([res EXCEPT !.loaded = TRUE], FALSE)
     ELSE pc' = "lc_get" /\ res' = [res EXCEPT !.loaded = TRUE]
  /\ UNCHANGED <<mode, arg, skip_login_check, skip_rate_limit_check, rest_vars>>

\* driver.get("https://www.instagram.com/"): an exception gives False
LcGet ==
  /\ mode = "session" /\ pc = "lc_get"
  /\ \E ok \in BOOLEAN :
       LET r == [res EXCEPT !.calls = Append(@, "get")]
       IN IF ok THEN pc' = (IF arg.cookies = 0 THEN after_cookies ELSE "lc_add") /\ res' = r
          ELSE pc' = "done" /\ res' = SessionReturn(r, FALSE)
  /\ UNCHANGED <<mode, arg, skip_login_check, skip_rate_limit_check, rest_vars>>

AddCalls == {"add_cookie", "add_cookie_failed"}

AddsDone(r) == Cardinality({k \in 1..Len(r.calls) : r.calls[k] \in AddCalls})

\* driver.add_cookie(cookie) for the next cookie; an exception is printed
\* and the loop continues
LcAddCookie ==
  /\ mode = "session" /\ pc = "lc_add"
  /\ \E call \in AddCalls : res' = [res EXCEPT !.calls = Append(@, call)]
  /\ pc' = IF AddsDone(res') = arg.cookies THEN after_cookies ELSE "lc_add"
  /\ UNCHANGED <<mode, arg, skip_login_check, skip_rate_limit_check, rest_vars>>

\* driver.refresh(): an exception gives False
LcRefresh ==
  /\ mode = "session" /\ pc = "lc_refresh"
  /\ \E ok \in BOOLEAN :
       LET r == [res EXCEPT !.calls = Append(@, "refresh")]
       IN IF ok THEN pc' = "lc_verify" /\ res' = r
          ELSE pc' = "done" /\ res' = SessionReturn(r, FALSE)
  /\ UNCHANGED <<mode, arg, skip_login_check, skip_rate_limit_check, rest_vars>>

\* self._verify_login_by_url(driver): reading current_url may raise
LcVerify ==
  /\ mode = "session" /\ pc = "lc_verify"
  /\ \E ok \in BOOLEAN, url_login \in BOOLEAN :
       LET r == [res EXCEPT !.calls = Append(@, "current_url")]
       IN IF ok
          THEN res' = SessionReturn([r EXCEPT !.url_login = <<url_login>>],
                                    _verify_login_by_url(url_login))
          ELSE res' = SessionReturn(r, FALSE)
  /\ pc' = "done"
  /\ UNCHANGED <<mode, arg, skip_login_check, skip_rate_limit_check, rest_vars>>

\* ------------------------------------------- extract_hashtags_from_text
\* a text is a list of characters
Marker == "#"

\* \s, for the characters used here
WhiteSpace == {" "}

\* the class [.,!?] of the two patterns (the two CJK marks are left out)
TrailingPunct == {".", ",", "!", "?"}

\* [^\s#]
TagChar(c) == c # Marker /\ c \notin WhiteSpace

\* the last position of the run of [^\s#] that starts at position p (p - 1
\* when there is none)
RECURSIVE RunEnd(_, _)
RunEnd(text, p) ==
  IF p <= Len(text) /\ TagChar(text[p]) THEN RunEnd(text, p + 1) ELSE p - 1

\* re.findall(r'#[^\s#]+(?:[^\s#]*[^\s#.,!?])?', text) from position p on:
\* the greedy [^\s#]+ takes the whole run, after which the optional group
\* has nothing left to match, so a match is the marker and the whole run
RECURSIVE findall_hashtags(_, _)
findall_hashtags(text, p) ==
  IF p > Len(text) THEN <<>>
  ELSE IF text[p] = Marker /\ RunEnd(text, p + 1) >= p + 1
       THEN <<SubSeq(text, p, RunEnd(text, p + 1))>>
              \o findall_hashtags(text, RunEnd(text, p + 1) + 1)
       ELSE findall_hashtags(text, p + 1)

\* changed: the trailing punctuation is kept
RECURSIVE cleaned_tag_unstripped(_)
cleaned_tag_unstripped(hashtag) == hashtag

\* re.sub(r'[.,!?]+$', '', hashtag)
RECURSIVE cleaned_tag(_)
cleaned_tag(hashtag) ==
  IF hashtag # <<>> /\ hashtag[Len(hashtag)] \in TrailingPunct
  THEN cleaned_tag(SubSeq(hashtag, 1, Len(hashtag) - 1))
  ELSE hashtag

\* the loop over the matches: unique_hashtags, with seen as its range
RECURSIVE unique_hashtags(_, _)
unique_hashtags(acc, hashtags) ==
  IF hashtags = <<>> THEN acc
  ELSE LET c == cleaned_tag(Head(hashtags))
       IN IF c # <<>> /\ Len(c) > 1 /\ c \notin Range(acc)
          THEN unique_hashtags(Append(acc, c), Tail(hashtags))
          ELSE unique_hashtags(acc, Tail(hashtags))

extract_hashtags_from_text(text) ==
  IF text = <<>> THEN <<>> ELSE unique_hashtags(<<>>, findall_hashtags(text, 1))

CaptionChars == {"#", " ", "a", "b", "!"}

ExampleCaption ==
  <<"G", "r", "e", "a", "t", " ", "d", "a", "y", " ",
    "#", "s", "u", "n", "s", "e", "t", " ", "#", "t",
    "r", "a", "v", "e", "l", "!", " ", "m", "o", "r",
    "e", " ", "t", "e", "x", "t", "#", "a", "r", "t",
    ".">>

Captions ==
  UNION {[1..n -> CaptionChars] : n \in 0..MaxText} \cup {ExampleCaption, <<"#", "a">>}

HashtagsInit ==
  /\ mode = "hashtags" /\ pc = "call"
  /\ arg \in Captions
  /\ res = <<>>
  /\ skip_login_check = TRUE /\ skip_rate_limit_check = TRUE
  /\ RestInit

CallExtractHashtags ==
  /\ mode = "hashtags" /\ pc = "call"
  /\ res' = <<extract_hashtags_from_text(arg)>>
  /\ pc' = "done"
  /\ UNCHANGED <<mode, arg, skip_login_check, skip_rate_limit_check, rest_vars>>

\* ------------------------------------------------- topic normalisation
\* hashtag.lstrip('#')
RECURSIVE lstrip_marker(_)
lstrip_marker(text) ==
  IF text # <<>> /\ Head(text) = Marker THEN lstrip_marker(Tail(text)) ELSE text

\* text.strip()
RECURSIVE strip(_)
strip(text) ==
  IF text # <<>> /\ Head(text) \in WhiteSpace THEN strip(Tail(text))
  ELSE IF text # <<>> /\ text[Len(text)] \in WhiteSpace
       THEN strip(SubSeq(text, 1, Len(text) - 1))
       ELSE text

\* clean_hashtag = hashtag.lstrip('#').strip()
clean_hashtag(hashtag) == strip(lstrip_marker(hashtag))

\* f"https://www.instagram.com/explore/tags/{clean_hashtag}/"
tag_url(name) == <<"https://www.instagram.com/explore/tags/">> \o name \o <<"/">>

\* the hashtag and url fields of the record fetch_hashtag_info starts from
info_record(hashtag) ==
  [hashtag |-> clean_hashtag(hashtag), url |-> <<tag_url(clean_hashtag(hashtag))>>]

\* the same fields of the session-failure record of fetch_hashtag_data,
\* which has no url key
session_failure_record(hashtag) ==
  [hashtag |-> lstrip_marker(hashtag), url |-> <<>>]

TopicChars == {"#", " ", "a"}

TopicStrings == UNION {[1..n -> TopicChars] : n \in 0..MaxText}

\* session: whether initialize_session succeeded
NormalizeInit ==
  /\ mode = "normalize" /\ pc = "call"
  /\ arg \in [hashtag : TopicStrings, session : BOOLEAN]
  /\ res = <<>>
  /\ skip_login_check = TRUE /\ skip_rate_limit_check = TRUE
  /\ RestInit

CallNormalize ==
  /\ mode = "normalize" /\ pc = "call"
  /\ res' = <<IF arg.session THEN info_record(arg.hashtag)
              ELSE session_failure_record(arg.hashtag)>>
  /\ pc' = "done"
  /\ UNCHANGED <<mode, arg, skip_login_check, skip_rate_limit_check, rest_vars>>

\* ------------------------------------------ the extractor on a static page
\* the iteration order of a set of strings follows the string hashes of the
\* running process: rank[t] is the place of tag t in that order
HashRanks ==
  {rank \in [Tags -> 1..Cardinality(Tags)] : \A s, t \in Tags : s # t => rank[s] # rank[t]}

\* a static topic page: the count its first locator shows, the tag names
\* and post ids behind its anchors in page order, whether the post pages
\* can be read, and the hash order of the process reading it
StaticPages ==
  [count : 0..MaxCount,
   related : BSeq(Tags \cup {NoMatch}, NumTags),
   links : BSeq(PostIds \cup {NoMatch}, MaxPostLinks),
   visit_ok : BOOLEAN,
   hash_rank : HashRanks]

CountObsOf(p) ==
  [elems |-> [k \in 1..4 |-> p.count], source |-> [k \in 1..3 |-> 0], fault |-> FALSE]

RelatedObsOf(p) ==
  [sel |-> [k \in 1..3 |-> IF k = 1 THEN p.related ELSE <<>>], fault |-> FALSE]

PostsObsOf(p) == [links |-> p.links, alt |-> <<>>, fault |-> FALSE]

\* the list _extract_related_tags returns in a process with this hash order
related_tags_in_process(o, rank) ==
  CHOOSE r \in _extract_related_tags(o) :
    \A j, k \in 1..Len(r) : j < k => rank[r[j]] < rank[r[k]]

\* the loop over unique_urls[:max_posts]
RECURSIVE visit_all(_, _, _)
visit_all(ps, urls, ok) ==
  IF urls = <<>> THEN ps ELSE visit_all(visit_post(ps, Head(urls), ok), Tail(urls), ok)

\* the three extraction steps of fetch_hashtag_info on page p
extract_page(p, maxp) ==
  [post_count |-> _extract_post_count(CountObsOf(p)),
   related_tags |-> related_tags_in_process(RelatedObsOf(p), p.hash_rank),
   top_posts |-> visit_all(<<>>, unique_urls(PostsObsOf(p), maxp), p.visit_ok)]

ExtractorInit ==
  /\ mode = "extractor" /\ pc = "call"
  /\ arg \in StaticPages
  /\ res = <<>>
  /\ skip_login_check = TRUE /\ skip_rate_limit_check = TRUE
  /\ RestInit

\* the extractor runs on the page, twice in all
CallExtractor ==
  /\ mode = "extractor" /\ pc = "call"
  /\ res' = Append(res, extract_page(arg, MaxPostsBound))
  /\ pc' = IF Len(res) = 1 THEN "done" ELSE "call"
  /\ UNCHANGED <<mode, arg, skip_login_check, skip_rate_limit_check, rest_vars>>

\* ------------------------------------------ BatchProcessor.process_hashtags
\* self.stats after __init__ (the two times are left out)
InitialStats == [total_tags |-> 0, success_count |-> 0, error_count |-> 0]

\* of: the place of the hashtag in the input; error: whether error is set
BatchRecord(k, failed) == [of |-> k, error |-> failed]

\* arg: the hashtags of the call in progress; res.done: the hashtags
\* handled so far in it; res.calls: the calls begun
BatchInit ==
  /\ mode = "batch" /\ pc = "idle"
  /\ arg = <<>>
  /\ res = [stats |-> InitialStats, results |-> <<>>, done |-> 0, calls |-> 0,
            interrupted |-> "no", returned |-> <<>>]
  /\ skip_login_check = TRUE /\ skip_rate_limit_check = TRUE
  /\ RestInit

\* process_hashtags(hashtags) up to the loop: an empty list returns [] at
\* once; else total_tags is set and results starts empty
BatchCall ==
  /\ mode = "batch" /\ pc \in {"idle", "returned"}
  /\ res.calls < MaxCalls
  /\ \E hashtags \in BSeq(Tags, MaxBatch) :
       /\ arg' = hashtags
       /\ IF hashtags = <<>>
          THEN /\ pc' = "returned"
               /\ res' = [res EXCEPT !.calls = @ + 1, !.results = <<>>, !.done = 0,
                                     !.interrupted = "no", !.returned = << <<>> >>]
          ELSE /\ pc' = "loop"
               /\ res' = [res EXCEPT !.calls = @ + 1, !.results = <<>>, !.done = 0,
                                     !.interrupted = "no", !.returned = <<>>,
                                     !.stats.total_tags = Len(hashtags)]
  /\ UNCHANGED <<mode, skip_login_check, skip_rate_limit_check, rest_vars>>

\* one iteration of the loop.  fetch_hashtag_data returns a record with or
\* without error, raises an exception (an error record is appended), or a
\* KeyboardInterrupt arrives during the fetch or during the wait after it
BatchOutcomes == {"ok", "error", "exception", "interrupt_fetch", "interrupt_sleep"}

BatchStep ==
  /\ mode = "batch" /\ pc = "loop"
  /\ res.done < Len(arg)
  /\ \E outcome \in BatchOutcomes :
       LET k == res.done + 1
           failed == outcome \in {"error", "exception"}
           counted == [res EXCEPT !.results = Append(@, BatchRecord(k, failed)),
                                  !.done = k,
                                  !.stats.success_count = IF failed THEN @ ELSE @ + 1,
                                  !.stats.error_count = IF failed THEN @ + 1 ELSE @]
       IN IF outcome = "interrupt_fetch"
          THEN res' = [res EXCEPT !.interrupted = "fetch"] /\ pc' = "finish"
          ELSE IF outcome = "interrupt_sleep"
          THEN /\ k < Len(arg)
               /\ res' = [counted EXCEPT !.interrupted = "sleep"] /\ pc' = "finish"
          ELSE res' = counted /\ pc' = IF k = Len(arg) THEN "finish" ELSE "loop"
  /\ UNCHANGED <<mode, arg, skip_login_check, skip_rate_limit_check, rest_vars>>

\* after the loop: the results are saved (a failure is logged), the summary
\* is printed, return results
BatchReturn ==
  /\ mode = "batch" /\ pc = "finish"
  /\ res' = [res EXCEPT !.returned = <<res.results>>]
  /\ pc' = "returned"
  /\ UNCHANGED <<mode, arg, skip_login_check, skip_rate_limit_check, rest_vars>>

\* ---------------------------------------------- _extract_top_posts, stepwise
TopicPage == "topic_page"
ErrorPage == "error_page"

\* changed: the browser is left where the last post visit put it
return_url_stays(original_url, current_url) == current_url

\* the target of the navigation after the loop: self.driver.get(original_url)
return_url(original_url, current_url) == original_url

\* where the browser can be after driver.get(url) from location at:
\* on url when the call succeeds; when it raises, still at the old page, on
\* the new one, or on an error page
after_get(at, url, ok) == IF ok THEN {url} ELSE {at, url, ErrorPage}

\* links: the post ids behind the anchors found; maxp: max_posts;
\* url_fault: reading driver.current_url raises
TopPostsInit ==
  /\ mode = "top_posts" /\ pc = "collect"
  /\ arg \in [links : BSeq(PostIds \cup {NoMatch}, MaxPostLinks),
              maxp : (-1)..MaxPostsBound, url_fault : BOOLEAN]
  /\ res = [location |-> TopicPage, original_url |-> <<>>, todo |-> <<>>, found |-> <<>>,
            nav_log |-> <<>>, return_ok |-> FALSE, returned |-> <<>>]
  /\ skip_login_check = TRUE /\ skip_rate_limit_check = TRUE
  /\ RestInit

\* the link search, the dedup, original_url = self.driver.current_url
TpCollect ==
  /\ mode = "top_posts" /\ pc = "collect"
  /\ IF arg.url_fault
     THEN res' = [res EXCEPT !.returned = << <<>> >>] /\ pc' = "done"
     ELSE /\ res' = [res EXCEPT !.original_url = <<res.location>>,
                                !.todo = unique_urls([links |-> arg.links, alt |-> <<>>,
                                                      fault |-> FALSE], arg.maxp)]
          /\ pc' = "visit"
  /\ UNCHANGED <<mode, arg, skip_login_check, skip_rate_limit_check, rest_vars>>

\* one iteration: self.driver.get(post_url), _extract_post_from_page; an
\* exception in either is logged and the loop continues
TpVisit ==
  /\ mode = "top_posts" /\ pc = "visit"
  /\ res.todo # <<>>
  /\ \E nav_ok \in BOOLEAN, read_ok \in BOOLEAN :
       \E at \in after_get(res.location, Head(res.todo), nav_ok) :
       res' = [res EXCEPT !.nav_log = Append(@, Head(res.todo)),
                          !.location = at,
                          !.found = visit_post(@, Head(res.todo), nav_ok /\ read_ok),
                          !.todo = Tail(@)]
  /\ UNCHANGED <<mode, arg, pc, skip_login_check, skip_rate_limit_check, rest_vars>>

\* after the loop: self.driver.get(original_url), an exception is ignored;
\* return posts
TpReturn ==
  /\ mode = "top_posts" /\ pc = "visit"
  /\ res.todo = <<>>
  /\ LET url == return_url(res.original_url[1], res.location)
     IN \E nav_ok \in BOOLEAN : \E at \in after_get(res.location, url, nav_ok) :
          res' = [res EXCEPT !.nav_log = Append(@, url), !.location = at,
                             !.return_ok = nav_ok, !.returned = <<res.found>>]
  /\ pc' = "done"
  /\ UNCHANGED <<mode, arg, skip_login_check, skip_rate_limit_check, rest_vars>>

\* ------------------------------------------------ extract_number_from_text
Digits == {"1", "2"}

Comma == ","

DigitValue(c) == IF c = "1" THEN 1 ELSE 2

\* the last position of the run of [\d,] that starts at position p (p - 1
\* when there is none)
RECURSIVE NumberRunEnd(_, _)
NumberRunEnd(text, p) ==
  IF p <= Len(text) /\ text[p] \in (Digits \cup {Comma})
  THEN NumberRunEnd(text, p + 1) ELSE p - 1

\* numbers[0] of re.findall(r'[\d,]+', text), searched from position p on;
\* <<>> when numbers is empty
RECURSIVE first_number(_, _)
first_number(text, p) ==
  IF p > Len(text) THEN <<>>
  ELSE IF NumberRunEnd(text, p) >= p THEN SubSeq(text, p, NumberRunEnd(text, p))
       ELSE first_number(text, p + 1)

\* s.replace(',', '')
RECURSIVE remove_commas(_)
remove_commas(s) ==
  IF s = <<>> THEN <<>>
  ELSE IF Head(s) = Comma THEN remove_commas(Tail(s))
       ELSE <<Head(s)>> \o remove_commas(Tail(s))

\* int(s) of a string of digits, s not empty
RECURSIVE int_of(_)
int_of(s) ==
  IF s = <<>> THEN 0 ELSE 10 * int_of(SubSeq(s, 1, Len(s) - 1)) + DigitValue(s[Len(s)])

\* the outcome of the call: int('') raises ValueError
extract_number_from_text(text) ==
  LET number == first_number(text, 1)
  IN IF number = <<>> THEN [raised |-> FALSE, value |-> 0]
     ELSE IF remove_commas(number) = <<>> THEN [raised |-> TRUE, value |-> 0]
     ELSE [raised |-> FALSE, value |-> int_of(remove_commas(number))]

NumberChars == Digits \cup {Comma, "a", " "}

NumberTexts == UNION {[1..n -> NumberChars] : n \in 0..MaxText}

NumberInit ==
  /\ mode = "number" /\ pc = "call"
  /\ arg \in NumberTexts
  /\ res = <<>>
  /\ skip_login_check = TRUE /\ skip_rate_limit_check = TRUE
  /\ RestInit

CallExtractNumber ==
  /\ mode = "number" /\ pc = "call"
  /\ res' = <<extract_number_from_text(arg)>>
  /\ pc' = "done"
  /\ UNCHANGED <<mode, arg, skip_login_check, skip_rate_limit_check, rest_vars>>

UnitInit == ClassifierInit \/ BackoffInit \/ SessionInit \/ HashtagsInit \/ NormalizeInit \/ ExtractorInit \/ BatchInit \/ TopPostsInit \/ NumberInit

UnitNext ==
  \/ CallClassifier \/ CallBackoff
  \/ SessionSetup \/ LcOpen \/ LcGet \/ LcAddCookie \/ LcRefresh \/ LcVerify
  \/ CallExtractHashtags
  \/ CallNormalize
  \/ CallExtractor
  \/ BatchCall \/ BatchStep \/ BatchReturn
  \/ TpCollect \/ TpVisit \/ TpReturn
  \/ CallExtractNumber

UnitSpec == UnitInit /\ [][UnitNext]_vars

\* no part of the page reading raised
NoFault(p) == p.fault = "none" /\ ~p.rate.fault /\ ~p.block.fault /\ ~p.log_fault

\* the login indicators of the classifier: login or challenge URL, or no landmark
LoginIndicator(p) ==
  UrlHas(p.url, LoginMarker) \/ UrlHas(p.url, ChallengeMarker) \/ (~p.profile /\ ~p.nav)

RateIndicator(p) == p.rate.phrase \/ p.rate.status

\* C12: classification precedence.  With no check skipped and nothing
\* raising, the classifier returns login_required when a login indicator is
\* present whatever else the page shows, rate_limited when a rate-limit
\* indicator is present and no login indicator, blocked when only the block
\* phrase is present, and none when no indicator is present.
C12_ClassificationPrecedence ==
  (mode = "classifier" /\ pc = "done" /\ ~skip_login_check /\ ~skip_rate_limit_check
     /\ NoFault(arg))
    => res[1] = IF LoginIndicator(arg) THEN "login_required"
                ELSE IF RateIndicator(arg) THEN "rate_limited"
                ELSE IF arg.block.phrase THEN "blocked"
                ELSE "none"

\* a page on the login URL that also shows a rate-limit phrase and the block
\* phrase has been classified login_required
C12_Witness ==
  /\ mode = "classifier" /\ pc = "done" /\ ~skip_login_check /\ ~skip_rate_limit_check
  /\ NoFault(arg) /\ UrlHas(arg.url, LoginMarker) /\ arg.rate.phrase /\ arg.block.phrase
  /\ res = <<"login_required">>

\* C13: the login and rate-limit checks are in force through the entry
\* point.  In a fetch made by fetch_hashtag_data, an attempt whose page is
\* on the login URL is classified login_required, and an attempt whose page
\* shows a rate-limit phrase does not go on to extraction.
C13_ChecksInForce ==
  (mode = "gui" /\ pc = "branch" /\ page # <<>>)
    => /\ page[1].url_login => error_type = "login_required"
       /\ page[1].rate_phrase
            => branch_target(error_type, attempt, max_retries) # "extract_count"

\* C14: the login check.  With the login check enabled and nothing raising,
\* a page on the login URL or without an authenticated landmark is
\* classified login_required, and for every topic name the page on the
\* canonical URL of the topic that shows a landmark is not.
C14_LoginCheck ==
  (mode = "classifier" /\ pc = "done" /\ ~skip_login_check /\ NoFault(arg))
    => /\ (UrlHas(arg.url, LoginMarker) \/ (~arg.profile /\ ~arg.nav))
            => res[1] = "login_required"
       /\ ((\E t \in TopicNames : arg.url = CanonicalUrl(t)) /\ (arg.profile \/ arg.nav))
            => res[1] # "login_required"

\* C15: the rate-limit check.  With the rate-limit check enabled, the login
\* check passing or skipped and nothing raising, the classifier returns
\* rate_limited if and only if the page contains a rate-limit phrase.
C15_RateLimitCheck ==
  (mode = "classifier" /\ pc = "done" /\ ~skip_rate_limit_check /\ NoFault(arg)
     /\ (skip_login_check \/ ~LoginIndicator(arg)))
    => (res[1] = "rate_limited" <=> arg.rate.phrase)

\* C16: field-level failures are absorbed.  From the count extraction to the
\* end of the post loop no step enters the retry handler, raises, sets the
\* record's error, ends the attempt or waits; a post visit, failed or not,
\* moves on to the next post and keeps the posts collected so far; and the
\* attempt that extracted returns with a null error.
C16_FieldFailuresAbsorbed ==
  /\ [](pc \in ExtractPcs => (hashtag_data.error = None /\ exc = None))
  /\ []((pc = "info_return" /\ extractions > 0) => hashtag_data.error = None)
  /\ [][(pc \in ExtractPcs)
          => /\ pc' \in (ExtractPcs \cup {"info_return"})
             /\ hashtag_data'.error = None /\ exc' = None
             /\ UNCHANGED <<attempt, navs, backoffs, outcomes>>]_vars
  /\ [][(pc = "post_loop" /\ post_navs' # post_navs)
          => /\ pc' = "post_loop" /\ pending' = Tail(pending)
             /\ posts' \in {posts, Append(posts, Head(pending))}]_vars

\* a call has returned no error, the default count and related tags, and the
\* second of two posts visited: the count, the related tags and the first
\* post failed
C16_Witness ==
  /\ pc = "returned" /\ ret # <<>> /\ ret[1].error = None /\ extractions = 1
  /\ ret[1].post_count = 0 /\ ret[1].related_tags = <<>>
  /\ post_navs = 2 /\ Len(ret[1].top_posts) = 1

\* the attempt of the k-th wait in res, and its capped delay by the formula
AttemptOf(k) == arg.attempt + k - 1

Capped(k) ==
  IF arg.base_delay * Pow2(AttemptOf(k)) < arg.max_delay
  THEN arg.base_delay * Pow2(AttemptOf(k))
  ELSE arg.max_delay

\* C17: backoff formula.  Every wait is d + j with d = min(base * 2^attempt,
\* cap) and 0 <= j <= 0.1 * d, so no wait exceeds 1.1 * cap; with base 1 and
\* zero jitter the waits for attempts 0, 1, 2 under a cap of at least 4 are
\* 1, 2, 4.
C17_BackoffFormula ==
  mode = "backoff"
    => \A k \in 1..Len(res) :
         /\ Tenths * Capped(k) <= res[k] /\ res[k] <= (Tenths + 1) * Capped(k)
         /\ res[k] <= (Tenths + 1) * arg.max_delay
         /\ (arg.base_delay = 1 /\ arg.max_delay >= 4 /\ AttemptOf(k) <= 2
               /\ res[k] % Tenths = 0)
              => res[k] = Tenths * <<1, 2, 4>>[AttemptOf(k) + 1]

\* base 1, attempts 1 and 2, zero jitter: the waits 2 and 4 have been slept
C17_Witness ==
  /\ mode = "backoff" /\ pc = "done" /\ arg.base_delay = 1 /\ arg.attempt = 1
  /\ arg.max_delay >= 4 /\ res = <<20, 40>>

\* base * 2^attempt of the k-th wait
Uncapped(k) == arg.base_delay * Pow2(AttemptOf(k))

\* C18 as claimed: for a base > 0, as long as the cap is not reached at an
\* attempt the wait of the next attempt is at least the wait of that attempt,
\* and once the cap is reached every wait lies in [cap, 1.1 * cap].
C18_AsClaimed ==
  (mode = "backoff" /\ pc = "done" /\ arg.base_delay > 0)
    => /\ Uncapped(1) < arg.max_delay => res[2] >= res[1]
       /\ \A k \in 1..2 : Uncapped(k) >= arg.max_delay
            => (Tenths * arg.max_delay <= res[k] /\ res[k] <= (Tenths + 1) * arg.max_delay)

\* C18 amended: for a base > 0, the wait of the next attempt is at least the
\* wait of an attempt when the next attempt is still within the cap
\* (base * 2^(n+1) <= cap); in every case it is at least the delay of the
\* attempt without its jitter; and once the cap is reached every wait lies in
\* [cap, 1.1 * cap].
C18_BackoffMonotone ==
  (mode = "backoff" /\ pc = "done" /\ arg.base_delay > 0)
    => /\ Uncapped(2) <= arg.max_delay => res[2] >= res[1]
       /\ res[2] >= Tenths * Capped(1)
       /\ \A k \in 1..2 : Uncapped(k) >= arg.max_delay
            => (Tenths * arg.max_delay <= res[k] /\ res[k] <= (Tenths + 1) * arg.max_delay)

\* two waits below the cap, the first with the largest jitter, the second
\* with none
C18_Witness ==
  /\ mode = "backoff" /\ pc = "done" /\ arg.base_delay > 0
  /\ Uncapped(2) <= arg.max_delay
  /\ res[1] = (Tenths + 1) * Uncapped(1) /\ res[2] = Tenths * Uncapped(2)

\* C19: expiry rule.  When the bundle file is missing or the bundle is more
\* than 7 days old, load_cookies makes no call on the driver and returns
\* False; a bundle that is read and is at most 7 days old is replayed: the
\* first call on the driver is the navigation to the site.
C19_ExpiryRule ==
  (mode = "session" /\ res.loaded)
    => /\ (arg.file = "missing" \/ (arg.file = "ok" /\ arg.age > CookieTTL))
            => (res.calls = <<>> /\ pc = "done" /\ res.result = <<FALSE>>)
       /\ (arg.file = "ok" /\ arg.age <= CookieTTL /\ pc # "lc_get")
            => (res.calls # <<>> /\ res.calls[1] = "get")

\* a bundle exactly 7 days old has been replayed and verified
C19_Witness ==
  /\ mode = "session" /\ pc = "done" /\ arg.file = "ok" /\ arg.age = CookieTTL
  /\ res.result = <<TRUE>> /\ res.calls[1] = "get"

\* the calls of a complete replay of n cookies, every cookie accepted
FullReplay(n) ==
  <<"get">> \o [k \in 1..n |-> "add_cookie"] \o <<"refresh", "current_url">>

\* the same calls by name, an add_cookie that raised counted as issued
Issued(calls) ==
  [k \in 1..Len(calls) |-> IF calls[k] \in AddCalls THEN "add_cookie" ELSE calls[k]]

\* C20 as stated: True only after navigate, add every cookie, reload,
\* verify, with no failure on the way and the login marker absent.
C20_AsClaimed ==
  (mode = "session" /\ res.result = <<TRUE>>)
    => /\ arg.file = "ok" /\ arg.age <= CookieTTL
       /\ res.calls = FullReplay(arg.cookies)
       /\ res.url_login = <<FALSE>>

\* C20: session acquisition.  initialize_session returns True only if the
\* bundle was read, is at most 7 days old, and the driver was called in the
\* order get, add_cookie once per cookie (a cookie the driver rejects is
\* skipped), refresh, current_url, and the URL read after the reload does not
\* hold the login marker; it always ends with True or False, and with False
\* whenever the navigation, the reload or the reading of the URL failed.
C20_SessionAcquisition ==
  mode = "session"
    => /\ res.result = <<TRUE>>
            => /\ arg.file = "ok" /\ arg.age <= CookieTTL
               /\ Issued(res.calls) = FullReplay(arg.cookies)
               /\ res.url_login = <<FALSE>>
       /\ res.url_login # <<>>
            => (Len(res.calls) >= 2 /\ res.calls[Len(res.calls) - 1] = "refresh")
       /\ pc = "done" => res.result \in {<<TRUE>>, <<FALSE>>}
       /\ (pc = "done" /\ Issued(res.calls) # FullReplay(arg.cookies))
            => res.result = <<FALSE>>
       /\ (pc = "done" /\ res.url_login # <<FALSE>>) => res.result = <<FALSE>>

\* every cookie replayed, one of them rejected, and the session is usable
C20_Witness ==
  /\ mode = "session" /\ pc = "done" /\ res.result = <<TRUE>>
  /\ arg.cookies = 2
  /\ res.calls = <<"get", "add_cookie_failed", "add_cookie", "refresh", "current_url">>

\* ------------------------------------------------ tags of a caption
\* the positions where a tag token starts: a marker followed by a character
\* that is neither whitespace nor a marker
TokenStarts(text) ==
  {p \in 1..(Len(text) - 1) : text[p] = Marker /\ TagChar(text[p + 1])}

\* the token that starts at p, up to the whitespace, marker or end of text
TokenAt(text, p) == SubSeq(text, p, RunEnd(text, p + 1))

\* a token without its trailing punctuation
Stripped(tok) ==
  SubSeq(tok, 1, CHOOSE n \in 1..Len(tok) :
                   /\ tok[n] \notin TrailingPunct
                   /\ \A q \in (n + 1)..Len(tok) : tok[q] \in TrailingPunct)

\* the first position at which a token strips to tag
FirstSeen(text, tag) ==
  CHOOSE p \in TokenStarts(text) :
    /\ Stripped(TokenAt(text, p)) = tag
    /\ \A q \in TokenStarts(text) : Stripped(TokenAt(text, q)) = tag => p <= q

\* C21: tag extraction.  The result holds exactly the tag tokens of the
\* caption with their trailing punctuation stripped (a token that is only a
\* marker after stripping is left out), each once, in the order of first
\* occurrence; every tag starts with the marker, holds no whitespace and no
\* second marker, and does not end in punctuation; the example caption
\* yields #sunset, #travel, #art.
C21_TagExtraction ==
  (mode = "hashtags" /\ pc = "done")
    => LET tags == res[1]
       IN /\ Range(tags) = {Stripped(TokenAt(arg, p)) : p \in TokenStarts(arg)} \ {<<Marker>>}
          /\ \A j, k \in 1..Len(tags) :
               j < k => FirstSeen(arg, tags[j]) < FirstSeen(arg, tags[k])
          /\ \A k \in 1..Len(tags) :
               /\ tags[k][1] = Marker
               /\ \A q \in 2..Len(tags[k]) : TagChar(tags[k][q])
               /\ tags[k][Len(tags[k])] \notin TrailingPunct
          /\ arg = ExampleCaption
               => tags = << <<"#", "s", "u", "n", "s", "e", "t">>,
                            <<"#", "t", "r", "a", "v", "e", "l">>,
                            <<"#", "a", "r", "t">> >>

\* a caption with a repeated tag, the first time with punctuation
C21_Witness ==
  /\ mode = "hashtags" /\ pc = "done"
  /\ arg = <<"#", "b", "!", "#", "b">>
  /\ res = << << <<"#", "b">> >> >>

\* C22: short tags are discarded.  No returned tag has a body (the tag
\* without its marker) of one character or less.
C22_ShortTagsDiscarded ==
  (mode = "hashtags" /\ pc = "done")
    => \A k \in 1..Len(res[1]) : Len(res[1][k]) - 1 > 1

\* no leading marker, no leading or trailing whitespace
Normalized(name) ==
  name = <<>> \/ /\ name[1] # Marker
                 /\ name[1] \notin WhiteSpace
                 /\ name[Len(name)] \notin WhiteSpace

\* C23: topic normalisation.  For every topic string the hashtag field of
\* the returned record has no leading marker and no leading or trailing
\* whitespace, and the url field is built from that name; for the records of
\* fetch_hashtag_info and for the session-failure record.
C23_TopicNormalization ==
  (mode = "normalize" /\ pc = "done")
    => /\ Normalized(res[1].hashtag)
       /\ res[1].url = <<tag_url(res[1].hashtag)>>

\* C24: extractor determinism.  Two runs of the extractor on the same
\* static page give the same post_count, the same related_tags in the same
\* order, that order being the order of first occurrence on the page, and
\* the same top_posts.
C24_ExtractorDeterminism ==
  (mode = "extractor" /\ pc = "done")
    => /\ res[1] = res[2]
       /\ res[1].related_tags = PySlice(AppendNew(<<>>, arg.related), RelatedCap)

ErrorRecords(rs) == Cardinality({k \in 1..Len(rs) : rs[k].error})

\* C25: batch accounting.  After each call of process_hashtags that
\* completes without a keyboard interrupt, in any sequence of calls on one
\* BatchProcessor, the returned list has one record per input hashtag in
\* input order and success_count + error_count = total_tags = len(hashtags),
\* error_count being the number of returned records with error set; after
\* an interrupt during the fetch of hashtag i only the records of the
\* hashtags before i are returned.
C25_BatchAccounting ==
  (mode = "batch" /\ pc = "returned")
    => LET rs == res.returned[1]
       IN /\ res.interrupted = "no"
               => /\ Len(rs) = Len(arg)
                  /\ \A k \in 1..Len(rs) : rs[k].of = k
                  /\ res.stats.success_count + res.stats.error_count = res.stats.total_tags
                  /\ res.stats.total_tags = Len(arg)
                  /\ res.stats.error_count = ErrorRecords(rs)
          /\ res.interrupted = "fetch"
               => (Len(rs) = res.done /\ \A k \in 1..Len(rs) : rs[k].of = k)

\* _extract_top_posts has returned after navigating to at least one post
VisitedPosts ==
  mode = "top_posts" /\ pc = "done" /\ \E k \in 1..Len(res.nav_log) : res.nav_log[k] \in PostIds

\* C26 as stated: the last navigation issued is to the topic page URL
\* recorded before the first post navigation, so the browser is on the topic
\* page when control returns.
C26_AsClaimed ==
  VisitedPosts
    => /\ res.nav_log[Len(res.nav_log)] = res.original_url[1]
       /\ res.original_url[1] = TopicPage
       /\ res.location = TopicPage

\* C26: return to the topic page.  Whenever _extract_top_posts has navigated
\* to at least one post URL, the last navigation it issues before returning
\* is to the topic page URL recorded before the first post navigation, also
\* when post visits fail; the browser is on the topic page when control
\* returns if that last navigation succeeds (its failure is ignored).
C26_ReturnToTopicPage ==
  VisitedPosts
    => /\ res.nav_log[Len(res.nav_log)] = res.original_url[1]
       /\ res.original_url[1] = TopicPage
       /\ \A k \in 1..(Len(res.nav_log) - 1) : res.nav_log[k] \in PostIds
       /\ res.return_ok => res.location = TopicPage

\* two posts visited, the second visit failed, the browser is back
C26_Witness ==
  /\ VisitedPosts
  /\ res.nav_log = <<"p1", "p2", TopicPage>>
  /\ res.returned = << <<"p1">> >>
  /\ res.return_ok /\ res.location = TopicPage

\* ------------------------------------------------ the rate-limit wait
\* max_delay: float = 30.0 of exponential_backoff_sleep
BackoffMaxDefault == 30

\* the wait_time of get_error_recovery_suggestions(kind), in seconds
recovery_wait_time(kind) ==
  CASE kind = "login_required" -> 0
    [] kind = "rate_limited" -> RateLimitWaitTime
    [] kind = "blocked" -> 86400
    [] kind = "dom_changed" -> 0
    [] OTHER -> 60

\* the waits, in tenths of a second, that the call logged as <<attempt,
\* base_delay>> can make: max_delay is left at its default
backoff_waits(call) ==
  LET delay == capped_delay(call[1], call[2], BackoffMaxDefault)
  IN {final_delay(delay, jitter) : jitter \in JitterDraws(delay)}

\* C27: rate-limit wait.  When an attempt is classified rate_limited and
\* retries remain, the time waited before the next navigation is at least
\* the wait_time of the rate_limited recovery suggestion, 300 seconds, which
\* is the wait announced in the log.
C27_RateLimitWait ==
  \A k \in 1..Len(backoff_log) :
    backoff_log[k][2] = recovery_wait_time("rate_limited")
      => \A w \in backoff_waits(backoff_log[k]) :
           w >= Tenths * recovery_wait_time("rate_limited")

HasDigit(text) == \E k \in 1..Len(text) : text[k] \in Digits

\* C28: extract_number_from_text is total.  For every text it returns,
\* without raising, the integer written by the first run of digits and
\* commas with the commas removed, and 0 for a text without a digit.
C28_NumberTotal ==
  (mode = "number" /\ pc = "done")
    => /\ ~res[1].raised
       /\ res[1].value >= 0
       /\ ~HasDigit(arg) => res[1].value = 0
       /\ HasDigit(first_number(arg, 1))
            => res[1].value = int_of(remove_commas(first_number(arg, 1)))

\* C29: a null error means a completed fetch.  For every max_retries,
\* fetch_hashtag_info returns a record with error null only if the topic
\* page was navigated to, the classifier ran on it and the three extraction
\* steps ran to completion; a call without a navigation never returns such
\* a record.
C29_NullErrorMeansFetched ==
  (mode = "info" /\ pc = "returned" /\ ret # <<>> /\ ret[1].error = None)
    => (navs >= 1 /\ classifies >= 1 /\ extractions >= 1)

\* ------------------------------------------------------ the GUI stop
\* the steps of the worker thread, which runs as long as it can
WorkerStep == WorkerCheck \/ WorkerCall \/ WorkerResult \/ WorkerAfterLoop

GuiFairSpec == Spec /\ WF_vars(FetchStep) /\ WF_vars(WorkerStep)

\* C30: the GUI stop is recoverable.  After execute_scraping has started a
\* worker and stop_scraping is requested, the worker stops after the fetch
\* in flight and scraping_finished eventually runs: the execute button is
\* enabled again, so that a later execute_scraping can start a new run.
C30_StopRecoverable ==
  (mode = "gui" /\ wpc \notin {"idle", "finished"} /\ ~is_running)
    ~> (execute_button = "normal")

====
